---- MODULE Spec2Model ----
(***************************************************************************)
(* The tmdb_pipeline DAG of src/dags/tmdb_pipeline.py: nine tasks run by   *)
(* the scheduler in dependency order over two raw CSV batches, three       *)
(* parquet artifacts, the table tmdb.movies_final and the report           *)
(* top_genres_by_rating.csv.                                               *)
(*                                                                         *)
(* Data representation.  A number is a non-negative rational [k, n, d]     *)
(* (floating-point rounding is not modelled).  A text is a sequence of     *)
(* one-character strings.  A raw CSV cell is given by what the library     *)
(* parsers make of its text: an integer literal, a float literal, other    *)
(* text, or a missing cell; a raw genres/cast cell by what                 *)
(* ast.literal_eval returns for it (or that it raises).                    *)
(***************************************************************************)
EXTENDS Integers, Sequences, FiniteSets, TLC

VARIABLES
    run,      \* the number of the DAG run (scheduling interval)
    status,   \* the state of each task instance of the run
    raw,      \* the two raw CSV batches of the run
    files,    \* the parquet files that exist under bronze/ and silver/
    bronzeM,  \* the frame in movies.parquet
    bronzeC,  \* the frame in credits.parquet
    silver,   \* the frame in movies_merged.parquet
    table,    \* the rows of tmdb.movies_final
    report,   \* the data rows of top_genres_by_rating.csv
    hist      \* history: the loads committed, the table the report task
              \* read, and the table, batches, report and success of the
              \* previous run

vars == <<run, status, raw, files, bronzeM, bronzeC, silver, table, report,
          hist>>

----------------------------------------------------------------------------
(* Numbers and texts *)

RECURSIVE GCD(_, _)
GCD(a, b) == IF b = 0 THEN a ELSE GCD(b, a % b)

NullNum == [k |-> "null", n |-> 0, d |-> 1]

Num(n, d) == LET g == GCD(n, d) IN [k |-> "num", n |-> n \div g, d |-> d \div g]

NumGE(a, b) == a.n * b.d >= b.n * a.d

NumGT(a, b) == a.n * b.d > b.n * a.d

NumAdd(a, b) == Num(a.n * b.d + b.n * a.d, a.d * b.d)

NullText == [k |-> "null", s |-> <<>>]

Text(s) == [k |-> "text", s |-> s]

(* The value of a column the frame does not have *)
AbsentText == [k |-> "absent", s |-> <<>>]

NullDate == [k |-> "null", v |-> ""]

----------------------------------------------------------------------------
(* Raw CSV cells, as the parsers see them *)

IntCell(n) == [c |-> "int", n |-> n, d |-> 1]

FloatCell(n, d) == [c |-> "float", n |-> n, d |-> d]

TextCell == [c |-> "text", n |-> 0, d |-> 1]

NanCell == [c |-> "nan", n |-> 0, d |-> 1]

DateCell(v) == [c |-> "date", v |-> v]

BadDateCell == [c |-> "text", v |-> ""]

(* pd.read_csv infers one dtype per column *)
ColumnDtype(cells) ==
    IF \A i \in DOMAIN cells : cells[i].c = "int" THEN "int64"
    ELSE IF \A i \in DOMAIN cells : cells[i].c \in {"int", "float", "nan"}
         THEN "float64"
         ELSE "object"

(* pd.to_numeric(..., errors="coerce") on one cell *)
ToNumeric(cell) ==
    IF cell.c \in {"int", "float"} THEN Num(cell.n, cell.d) ELSE NullNum

(* pd.to_datetime(..., errors="coerce").dt.date on one cell *)
ToDate(cell) ==
    IF cell.c = "date" THEN [k |-> "date", v |-> cell.v] ELSE NullDate

(* Series.astype("int64") on one cell of a column of the given dtype:       *)
(* a float column truncates, an object column calls int() on the text,     *)
(* which raises ValueError on a float literal                              *)
AstypeInt64Raises(dtype, cell) ==
    dtype = "object" /\ cell.c # "int"

AstypeInt64(dtype, cell) ==
    IF dtype = "float64" THEN cell.n \div cell.d ELSE cell.n

----------------------------------------------------------------------------
(* bronze_movies and bronze_credits *)

Column(rows, col) == [i \in DOMAIN rows |-> rows[i][col]]

IdIsNumeric(cell) == ToNumeric(cell).k = "num"

(* df[pd.to_numeric(df[col], errors="coerce").notna()] *)
KeepNumericId(rows, col) == SelectSeq(rows, LAMBDA r : IdIsNumeric(r[col]))

NormalizeMovie(dtype, r) ==
    [id           |-> AstypeInt64(dtype, r.id),
     title        |-> r.title,
     release_date |-> ToDate(r.release_date),
     vote_average |-> ToNumeric(r.vote_average),
     vote_count   |-> ToNumeric(r.vote_count),
     popularity   |-> ToNumeric(r.popularity),
     runtime      |-> ToNumeric(r.runtime),
     genres       |-> r.genres]

(* The outcome of bronze_movies on a raw batch: whether it raises, and     *)
(* the frame it writes to movies.parquet otherwise                         *)
BronzeMovies(batch) ==
    LET dtype == ColumnDtype(Column(batch.rows, "id"))
        kept  == KeepNumericId(batch.rows, "id")
    IN  [raised    |-> \E i \in DOMAIN kept : AstypeInt64Raises(dtype, kept[i].id),
         hasGenres |-> batch.hasGenres,
         rows      |-> [i \in DOMAIN kept |-> NormalizeMovie(dtype, kept[i])]]

BronzeCredits(batch) ==
    LET dtype == ColumnDtype(Column(batch.rows, "movie_id"))
        kept  == KeepNumericId(batch.rows, "movie_id")
    IN  [raised  |-> \E i \in DOMAIN kept :
                        AstypeInt64Raises(dtype, kept[i].movie_id),
         hasCast |-> batch.hasCast,
         rows    |-> [i \in DOMAIN kept |->
                        [movie_id |-> AstypeInt64(dtype, kept[i].movie_id),
                         cast     |-> kept[i].cast]]]

----------------------------------------------------------------------------
(* transform_merge: parsing, features, merge *)

(* A raw genres/cast cell: missing, text that ast.literal_eval rejects, or *)
(* text denoting a literal whose top level is a list of items or is not.   *)
NanList == [c |-> "nan", top |-> "none", items |-> <<>>]

MalformedList == [c |-> "malformed", top |-> "none", items |-> <<>>]

NonList == [c |-> "literal", top |-> "other", items |-> <<>>]

ListLit(items) == [c |-> "literal", top |-> "list", items |-> items]

(* The items of a list: a dict whose "name" is absent, a str, an int       *)
(* (non-zero) or None, or something that is not a dict                     *)
Dict(nk, s) == [e |-> "dict", nk |-> nk, s |-> s]

NonDict == [e |-> "other", nk |-> "absent", s |-> <<>>]

ParseListOfDicts(cell) ==
    IF cell.c = "nan" THEN <<>>
    ELSE IF cell.c = "malformed" THEN <<>>
    ELSE IF cell.top = "list" THEN cell.items
    ELSE <<>>

(* isinstance(d, dict) and d.get("name") *)
HasName(d) ==
    /\ d.e = "dict"
    /\ \/ d.nk = "str" /\ d.s # <<>>
       \/ d.nk = "int"

(* [d.get("name","") for d in L if isinstance(d, dict) and d.get("name")] *)
QualifyingNames(L) == SelectSeq(L, HasName)

Take(s, n) == SubSeq(s, 1, IF Len(s) < n THEN Len(s) ELSE n)

CastLimit == 3

(* Mutant: take-then-filter, the first three items and then those named *)
CastNamesTakeThenFilter(L) == QualifyingNames(Take(L, CastLimit))

CastNames(L) == Take(QualifyingNames(L), CastLimit)

(* ", ".join(names) raises TypeError when an item is not a str *)
JoinRaises(names) == \E i \in DOMAIN names : names[i].nk # "str"

RECURSIVE Join(_)
Join(names) ==
    IF names = <<>> THEN <<>>
    ELSE IF Len(names) = 1 THEN names[1].s
    ELSE names[1].s \o <<",", " ">> \o Join(Tail(names))

GenresNames(cell) == Join(QualifyingNames(ParseListOfDicts(cell)))

CastTop3(cell) == Join(CastNames(ParseListOfDicts(cell)))

(* movies_thin.merge(credits_thin, on="id", how="left"): one output row    *)
(* per matching credit row, in credit order, or one with a null cast_top3  *)
MergedRow(m, hasGenres, cast) ==
    [id           |-> m.id,
     title        |-> m.title,
     release_date |-> m.release_date,
     vote_average |-> m.vote_average,
     vote_count   |-> m.vote_count,
     popularity   |-> m.popularity,
     runtime      |-> m.runtime,
     genres       |-> IF hasGenres THEN Text(GenresNames(m.genres)) ELSE AbsentText,
     cast_top3    |-> cast]

(* Mutant: an inner join, which drops the movies without a credit row *)
LeftMergeOneInner(m, hasGenres, credits, hasCast) ==
    LET ms == SelectSeq(credits, LAMBDA c : c.movie_id = m.id)
    IN  [j \in DOMAIN ms |->
            MergedRow(m, hasGenres,
                      IF hasCast THEN Text(CastTop3(ms[j].cast)) ELSE AbsentText)]

Matches(m, credits) == SelectSeq(credits, LAMBDA c : c.movie_id = m.id)

LeftMergeOne(m, hasGenres, credits, hasCast) ==
    LET ms == Matches(m, credits)
    IN  IF ms = <<>>
        THEN << MergedRow(m, hasGenres, IF hasCast THEN NullText ELSE AbsentText) >>
        ELSE [j \in DOMAIN ms |->
                MergedRow(m, hasGenres,
                          IF hasCast THEN Text(CastTop3(ms[j].cast)) ELSE AbsentText)]

RECURSIVE LeftMerge(_, _, _, _)
LeftMerge(movies, hasGenres, credits, hasCast) ==
    IF movies = <<>> THEN <<>>
    ELSE LeftMergeOne(Head(movies), hasGenres, credits, hasCast)
         \o LeftMerge(Tail(movies), hasGenres, credits, hasCast)

(* The outcome of transform_merge on the two bronze frames *)
TransformMerge(m, c) ==
    [raised |->
        \/ /\ m.hasGenres
           /\ \E i \in DOMAIN m.rows :
                 JoinRaises(QualifyingNames(ParseListOfDicts(m.rows[i].genres)))
        \/ /\ c.hasCast
           /\ \E i \in DOMAIN c.rows :
                 JoinRaises(CastNames(ParseListOfDicts(c.rows[i].cast))),
     cols |-> {"id", "title", "release_date", "vote_average", "vote_count",
               "popularity", "runtime"}
              \cup (IF m.hasGenres THEN {"genres"} ELSE {})
              \cup (IF c.hasCast THEN {"cast_top3"} ELSE {}),
     rows |-> LeftMerge(m.rows, m.hasGenres, c.rows, c.hasCast)]

----------------------------------------------------------------------------
(* load_to_postgres: the rows appended to tmdb.movies_final *)

(* for col in expected: if col not in df.columns: df[col] = None *)
BackFill(cols, col, v) == IF col \in cols THEN v ELSE NullText

StoredRow(cols, r) ==
    [id           |-> r.id,
     title        |-> r.title,
     release_date |-> r.release_date,
     vote_average |-> r.vote_average,
     vote_count   |-> r.vote_count,
     popularity   |-> r.popularity,
     runtime      |-> r.runtime,
     genres       |-> BackFill(cols, "genres", r.genres),
     cast_top3    |-> BackFill(cols, "cast_top3", r.cast_top3)]

LoadRows(frame) == [i \in DOMAIN frame.rows |-> StoredRow(frame.cols, frame.rows[i])]

----------------------------------------------------------------------------
(* analyze_to_csv: explode, filter, group, rank, top 10 *)

IsSpace(ch) == ch = " "

RECURSIVE LStrip(_)
LStrip(s) == IF s # <<>> /\ IsSpace(Head(s)) THEN LStrip(Tail(s)) ELSE s

RECURSIVE RStrip(_)
RStrip(s) ==
    IF s # <<>> /\ IsSpace(s[Len(s)]) THEN RStrip(SubSeq(s, 1, Len(s) - 1)) ELSE s

Strip(s) == RStrip(LStrip(s))

(* str.split(","): the pieces between commas, empty pieces included *)
RECURSIVE SplitFrom(_, _)
SplitFrom(s, cur) ==
    IF s = <<>> THEN << cur >>
    ELSE IF Head(s) = "," THEN << cur >> \o SplitFrom(Tail(s), <<>>)
    ELSE SplitFrom(Tail(s), Append(cur, Head(s)))

SplitComma(s) == SplitFrom(s, <<>>)

(* [x.strip() for x in genres.split(",") if x.strip()] *)
GenreTokens(s) ==
    LET parts == SplitComma(s)
        kept  == SelectSeq(parts, LAMBDA x : Strip(x) # <<>>)
    IN  [i \in DOMAIN kept |-> Strip(kept[i])]

(* df["genres"].fillna("") *)
FillNa(t) == IF t.k = "text" THEN t.s ELSE <<>>

ExplodeRow(r) ==
    LET toks == GenreTokens(FillNa(r.genres))
    IN  [i \in DOMAIN toks |->
            [genre |-> toks[i], vote_average |-> r.vote_average,
             vote_count |-> r.vote_count]]

RECURSIVE Explode(_)
Explode(rows) ==
    IF rows = <<>> THEN <<>> ELSE ExplodeRow(Head(rows)) \o Explode(Tail(rows))

MinVotes == 50

(* Mutant: more than 50 votes *)
HasSupportStrict(x) == x.vote_count.k = "num" /\ NumGT(x.vote_count, Num(MinVotes, 1))

(* ex["vote_count"] >= 50: a comparison with NaN is False *)
HasSupport(x) == x.vote_count.k = "num" /\ NumGE(x.vote_count, Num(MinVotes, 1))

Supported(ex) == SelectSeq(ex, HasSupport)

OfGenre(ex, g) == SelectSeq(ex, LAMBDA x : x.genre = g)

RECURSIVE SumVotes(_)
SumVotes(xs) ==
    IF xs = <<>> THEN Num(0, 1) ELSE NumAdd(Head(xs).vote_average, SumVotes(Tail(xs)))

(* groupby(...)["vote_average"].mean(): NaN values are skipped, and the    *)
(* mean of none is NaN                                                     *)
MeanVote(xs) ==
    LET known == SelectSeq(xs, LAMBDA x : x.vote_average.k = "num")
        sum   == SumVotes(known)
    IN  IF known = <<>> THEN NullNum ELSE Num(sum.n, sum.d * Len(known))

(* groupby(...).size(): every row of the group *)
GroupSize(xs) == Len(xs)

(* groupby sorts the group keys: the order of texts, character by character *)
Alphabet == <<" ", ",", "A", "B", "C", "D", "E", "F", "G", "H", "I", "J", "K", "L">>

CharRank(ch) == CHOOSE i \in DOMAIN Alphabet : Alphabet[i] = ch

RECURSIVE TextLess(_, _)
TextLess(a, b) ==
    IF b = <<>> THEN FALSE
    ELSE IF a = <<>> THEN TRUE
    ELSE IF Head(a) = Head(b) THEN TextLess(Tail(a), Tail(b))
    ELSE CharRank(Head(a)) < CharRank(Head(b))

RECURSIVE SortedKeys(_)
SortedKeys(keys) ==
    IF keys = {} THEN <<>>
    ELSE LET least == CHOOSE k \in keys : \A o \in keys \ {k} : TextLess(k, o)
         IN  << least >> \o SortedKeys(keys \ {least})

GroupRows(ex) ==
    LET keys == SortedKeys({ex[i].genre : i \in DOMAIN ex})
    IN  [i \in DOMAIN keys |->
            [genre    |-> keys[i],
             n_movies |-> GroupSize(OfGenre(ex, keys[i])),
             avg_vote |-> MeanVote(OfGenre(ex, keys[i]))]]

(* Mutant: an ascending sort *)
BeforeAscending(a, b) == a.k = "num" /\ (b.k = "null" \/ NumGT(b, a))

(* sort_values("avg_vote", ascending=False): NaN last, ties in group order *)
Before(a, b) == a.k = "num" /\ (b.k = "null" \/ NumGT(a, b))

RemoveAt(s, i) == SubSeq(s, 1, i - 1) \o SubSeq(s, i + 1, Len(s))

RECURSIVE SortByAvgDesc(_)
SortByAvgDesc(gs) ==
    IF gs = <<>> THEN <<>>
    ELSE LET first == CHOOSE i \in DOMAIN gs :
                        /\ \A j \in DOMAIN gs : ~Before(gs[j].avg_vote, gs[i].avg_vote)
                        /\ \A j \in 1 .. (i - 1) : Before(gs[j].avg_vote, gs[i].avg_vote)
                                                    \/ Before(gs[i].avg_vote, gs[j].avg_vote)
         IN  << gs[first] >> \o SortByAvgDesc(RemoveAt(gs, first))

TopN == 10

(* The rows analyze_to_csv writes for a stored table *)
Analyze(rows) ==
    IF rows = <<>> THEN <<>>
    ELSE LET ex == Explode(rows)
         IN  IF ex = <<>> THEN <<>>
             ELSE Take(SortByAvgDesc(GroupRows(Supported(ex))), TopN)

----------------------------------------------------------------------------
(* The DAG: tasks, dependencies and the scheduler's rules *)

Tasks == {"ensure_dirs", "bronze_movies", "bronze_credits", "create_tables",
          "transform_merge", "truncate_movies", "load_to_postgres",
          "analyze_to_csv", "cleanup_intermediate"}

(* Mutant: cleanup waits for the load, not for the report *)
UpstreamCleanupAfterLoad(t) ==
    CASE t = "ensure_dirs"          -> {}
      [] t = "bronze_movies"        -> {"ensure_dirs"}
      [] t = "bronze_credits"       -> {"ensure_dirs"}
      [] t = "create_tables"        -> {}
      [] t = "transform_merge"      -> {"bronze_movies", "bronze_credits"}
      [] t = "truncate_movies"      -> {"create_tables", "transform_merge"}
      [] t = "load_to_postgres"     -> {"transform_merge"}
      [] t = "analyze_to_csv"       -> {"load_to_postgres"}
      [] t = "cleanup_intermediate" -> {"load_to_postgres"}

(* The task dependencies declared at the end of the DAG definition *)
Upstream(t) ==
    CASE t = "ensure_dirs"          -> {}
      [] t = "bronze_movies"        -> {"ensure_dirs"}
      [] t = "bronze_credits"       -> {"ensure_dirs"}
      [] t = "create_tables"        -> {}
      [] t = "transform_merge"      -> {"bronze_movies", "bronze_credits"}
      [] t = "truncate_movies"      -> {"create_tables", "transform_merge"}
      [] t = "load_to_postgres"     -> {"transform_merge"}
      [] t = "analyze_to_csv"       -> {"load_to_postgres"}
      [] t = "cleanup_intermediate" -> {"analyze_to_csv"}

Terminal == {"success", "failed", "upstream_failed"}

AllDone == \A t \in Tasks : status[t] \in Terminal

AllSucceeded == \A t \in Tasks : status[t] = "success"

Set(t, st) == status' = [status EXCEPT ![t] = st]

(* The scheduler starts a task once all its upstream tasks have succeeded *)
Start(t) ==
    /\ status[t] = "none"
    /\ \A u \in Upstream(t) : status[u] = "success"
    /\ Set(t, "running")
    /\ UNCHANGED <<run, raw, files, bronzeM, bronzeC, silver, table, report, hist>>

(* and never runs a task one of whose upstream tasks did not succeed *)
UpstreamFailed(t) ==
    /\ status[t] = "none"
    /\ \E u \in Upstream(t) : status[u] \in {"failed", "upstream_failed"}
    /\ Set(t, "upstream_failed")
    /\ UNCHANGED <<run, raw, files, bronzeM, bronzeC, silver, table, report, hist>>

(* A running task fails for a reason outside the data (store unreachable,  *)
(* file unreadable); retries is 0; a failed transaction rolls back         *)
Fail(t) ==
    /\ status[t] = "running"
    /\ Set(t, "failed")
    /\ UNCHANGED <<run, raw, files, bronzeM, bronzeC, silver, table, report, hist>>

Outcome(raised) == IF raised THEN "failed" ELSE "success"

EnsureDirs ==
    /\ status["ensure_dirs"] = "running"
    /\ Set("ensure_dirs", "success")
    /\ UNCHANGED <<run, raw, files, bronzeM, bronzeC, silver, table, report, hist>>

(* include/sql/create_tables.sql is taken to create the schema and the     *)
(* table when they do not exist, without constraints, and to leave the     *)
(* rows of an existing table alone                                         *)
CreateTables ==
    /\ status["create_tables"] = "running"
    /\ Set("create_tables", "success")
    /\ UNCHANGED <<run, raw, files, bronzeM, bronzeC, silver, table, report, hist>>

BronzeMoviesTask ==
    /\ status["bronze_movies"] = "running"
    /\ LET r == BronzeMovies(raw.movies)
       IN  /\ Set("bronze_movies", Outcome(r.raised))
           /\ IF r.raised
              THEN UNCHANGED <<files, bronzeM>>
              ELSE /\ bronzeM' = [hasGenres |-> r.hasGenres, rows |-> r.rows]
                   /\ files' = files \cup {"movies.parquet"}
    /\ UNCHANGED <<run, raw, bronzeC, silver, table, report, hist>>

BronzeCreditsTask ==
    /\ status["bronze_credits"] = "running"
    /\ LET r == BronzeCredits(raw.credits)
       IN  /\ Set("bronze_credits", Outcome(r.raised))
           /\ IF r.raised
              THEN UNCHANGED <<files, bronzeC>>
              ELSE /\ bronzeC' = [hasCast |-> r.hasCast, rows |-> r.rows]
                   /\ files' = files \cup {"credits.parquet"}
    /\ UNCHANGED <<run, raw, bronzeM, silver, table, report, hist>>

TransformMergeTask ==
    /\ status["transform_merge"] = "running"
    /\ LET missing == ~ ({"movies.parquet", "credits.parquet"} \subseteq files)
           r       == TransformMerge(bronzeM, bronzeC)
       IN  /\ Set("transform_merge", Outcome(missing \/ r.raised))
           /\ IF missing \/ r.raised
              THEN UNCHANGED <<files, silver>>
              ELSE /\ silver' = [cols |-> r.cols, rows |-> r.rows]
                   /\ files' = files \cup {"movies_merged.parquet"}
    /\ UNCHANGED <<run, raw, bronzeM, bronzeC, table, report, hist>>

(* TRUNCATE tmdb.movies_final; one statement, committed on its own *)
TruncateMovies ==
    /\ status["truncate_movies"] = "running"
    /\ Set("truncate_movies", "success")
    /\ table' = <<>>
    /\ UNCHANGED <<run, raw, files, bronzeM, bronzeC, silver, report, hist>>

(* df.to_sql(..., if_exists="append") inside engine.begin(): the rows are  *)
(* appended in one transaction                                             *)
LoadToPostgres ==
    /\ status["load_to_postgres"] = "running"
    /\ LET missing == "movies_merged.parquet" \notin files
       IN  /\ Set("load_to_postgres", Outcome(missing))
           /\ IF missing
              THEN UNCHANGED <<table, hist>>
              ELSE /\ table' = table \o LoadRows(silver)
                   /\ hist' = [hist EXCEPT !.loads = @ \cup {LoadRows(silver)}]
    /\ UNCHANGED <<run, raw, files, bronzeM, bronzeC, silver, report>>

(* One query reads the table; the report file is rewritten from it *)
AnalyzeToCsv ==
    /\ status["analyze_to_csv"] = "running"
    /\ Set("analyze_to_csv", "success")
    /\ report' = Analyze(table)
    /\ hist' = [hist EXCEPT !.read = table]
    /\ UNCHANGED <<run, raw, files, bronzeM, bronzeC, silver, table>>

CleanupIntermediate ==
    /\ status["cleanup_intermediate"] = "running"
    /\ Set("cleanup_intermediate", "success")
    /\ files' = {}
    /\ UNCHANGED <<run, raw, bronzeM, bronzeC, silver, table, report, hist>>

----------------------------------------------------------------------------
(* Runs of the DAG over well-formed batches *)

MaxRuns == 2

Movie(id, title, date, va, vc, genres) ==
    [id |-> id, title |-> title, release_date |-> date, vote_average |-> va,
     vote_count |-> vc, popularity |-> FloatCell(3, 2), runtime |-> IntCell(90),
     genres |-> genres]

Credit(id, cast) == [movie_id |-> id, cast |-> cast]

Named(s) == Dict("str", s)

RawA ==
    [movies  |-> [hasGenres |-> TRUE, rows |->
        << Movie(IntCell(1), "A", DateCell("2009-12-10"), FloatCell(8, 1),
                 IntCell(100), ListLit(<< Named(<<"D">>) >>)) >>],
     credits |-> [hasCast |-> TRUE, rows |->
        << Credit(IntCell(1), ListLit(<< Named(<<"E">>), Named(<<"F">>) >>)) >>]]

RawB ==
    [movies  |-> [hasGenres |-> TRUE, rows |->
        << Movie(IntCell(1), "A", DateCell("2009-12-10"), FloatCell(8, 1),
                 IntCell(100), ListLit(<< Named(<<"D">>) >>)),
           Movie(TextCell, "B", BadDateCell, IntCell(9), IntCell(70),
                 ListLit(<< Named(<<"D">>) >>)),
           Movie(IntCell(2), "C", NanCell, IntCell(6), IntCell(60),
                 ListLit(<< Named(<<"C">>), Named(<<"D">>) >>)) >>],
     credits |-> [hasCast |-> TRUE, rows |->
        << Credit(IntCell(2), ListLit(<< Named(<<"G">>) >>)) >>]]

RunInputs == {RawA, RawB}

EmptyHist ==
    [loads |-> {}, read |-> <<>>, tableAtStart |-> <<>>, prevRaw |-> RawA,
     prevReport |-> <<>>, prevOK |-> FALSE]

Init ==
    /\ run = 1
    /\ status = [t \in Tasks |-> "none"]
    /\ raw \in RunInputs
    /\ files = {}
    /\ bronzeM = [hasGenres |-> FALSE, rows |-> <<>>]
    /\ bronzeC = [hasCast |-> FALSE, rows |-> <<>>]
    /\ silver = [cols |-> {}, rows |-> <<>>]
    /\ table = <<>>
    /\ report = <<>>
    /\ hist = EmptyHist

(* The next scheduling interval: every task of the run has ended, and the  *)
(* raw files may have been replaced                                        *)
NewRun ==
    /\ AllDone
    /\ run < MaxRuns
    /\ run' = run + 1
    /\ status' = [t \in Tasks |-> "none"]
    /\ raw' \in RunInputs
    /\ hist' = [hist EXCEPT !.tableAtStart = table, !.prevRaw = raw,
                            !.prevReport = report, !.prevOK = AllSucceeded]
    /\ UNCHANGED <<files, bronzeM, bronzeC, silver, table, report>>

Next ==
    \/ \E t \in Tasks : Start(t)
    \/ \E t \in Tasks : UpstreamFailed(t)
    \/ \E t \in Tasks : Fail(t)
    \/ EnsureDirs
    \/ CreateTables
    \/ BronzeMoviesTask
    \/ BronzeCreditsTask
    \/ TransformMergeTask
    \/ TruncateMovies
    \/ LoadToPostgres
    \/ AnalyzeToCsv
    \/ CleanupIntermediate
    \/ NewRun

Spec == Init /\ [][Next]_vars

----------------------------------------------------------------------------
(* Properties of the runs *)

(* The rows a run's load appends, from the run's raw batches *)
RunRows(r) ==
    LoadRows(TransformMerge(BronzeMovies(r.movies), BronzeCredits(r.credits)))

Started(t) == status[t] \in {"running", "success", "failed"}

Artifacts == {"movies.parquet", "credits.parquet", "movies_merged.parquet"}

(* C1: at the end of a run in which every task succeeded, the table holds  *)
(* exactly one copy of that run's merged rows.                             *)
C1_TableReplacedEachRun == AllSucceeded => table = RunRows(raw)

(* C2: in every state the table is empty or is the complete row set of a   *)
(* single run's load.                                                      *)
C2_ReadersSeeOneLoadOrEmpty == table = <<>> \/ table \in hist.loads

(* C3: when transform_merge, truncate_movies or load_to_postgres failed,   *)
(* the table at the end of the run is what it was at the start of the run, *)
(* or empty.                                                               *)
C3_FailedRunLeavesStoreCleanlyReplacedOrEmpty ==
    (/\ AllDone
     /\ \E t \in {"transform_merge", "truncate_movies", "load_to_postgres"} :
           status[t] = "failed")
    => (table = hist.tableAtStart \/ table = <<>>)

(* C4: two consecutive successful runs over the same raw batches write the *)
(* same report.                                                            *)
C4_SameInputsSameReport ==
    (AllSucceeded /\ hist.prevOK /\ raw = hist.prevRaw) => report = hist.prevReport

(* C5: a task has started only if the tasks it depends on have succeeded:  *)
(* both bronze tasks before transform_merge, transform_merge before        *)
(* load_to_postgres, load_to_postgres before analyze_to_csv, and           *)
(* analyze_to_csv before cleanup_intermediate; while the report task has   *)
(* failed the intermediate artifacts are all in place.                     *)
C5_DependencyOrder ==
    /\ Started("transform_merge") =>
          status["bronze_movies"] = "success" /\ status["bronze_credits"] = "success"
    /\ Started("load_to_postgres") => status["transform_merge"] = "success"
    /\ Started("analyze_to_csv") => status["load_to_postgres"] = "success"
    /\ Started("cleanup_intermediate") => status["analyze_to_csv"] = "success"
    /\ status["analyze_to_csv"] = "failed" => Artifacts \subseteq files

(* C5 witness: the report task failed in the second run, cleanup was not   *)
(* run, and the artifacts are there                                        *)
C5_Witness ==
    /\ run = 2
    /\ status["analyze_to_csv"] = "failed"
    /\ status["cleanup_intermediate"] = "upstream_failed"
    /\ Artifacts \subseteq files

----------------------------------------------------------------------------
(* Bounded input families for the stages taken one at a time *)

RECURSIVE SeqsUpTo(_, _)
SeqsUpTo(S, n) ==
    IF n = 0 THEN { <<>> }
    ELSE LET shorter == SeqsUpTo(S, n - 1)
         IN  shorter \cup { Append(q, x) : q \in shorter, x \in S }

Succeeded(S) == [t \in Tasks |-> IF t \in S THEN "success" ELSE "none"]

NoFrames ==
    /\ bronzeM = [hasGenres |-> FALSE, rows |-> <<>>]
    /\ bronzeC = [hasCast |-> FALSE, rows |-> <<>>]
    /\ silver = [cols |-> {}, rows |-> <<>>]

(* Normalisation and parsing: raw batches with malformed fields *)
MaxRawRows == 2

RawIds == {IntCell(1), FloatCell(3, 2), TextCell, NanCell}

RawLists ==
    {NanList, MalformedList, NonList, ListLit(<< NonDict >>),
     ListLit(<< Dict("int", <<>>) >>), ListLit(<< Named(<<"D">>) >>)}

RawMovieRows ==
    { Movie(id, "A", DateCell("2009-12-10"), FloatCell(8, 1), IntCell(100), g) :
        id \in RawIds, g \in RawLists }
    \cup
    { Movie(id, "B", BadDateCell, TextCell, NanCell, g) :
        id \in RawIds, g \in RawLists }

RawCreditBatches ==
    { << >>,
      << Credit(IntCell(1), ListLit(<< Named(<<"E">>) >>)) >>,
      << Credit(TextCell, MalformedList), Credit(FloatCell(3, 2), NanList) >>,
      << Credit(IntCell(1), ListLit(<< Dict("int", <<>>) >>)) >> }

InitNorm ==
    /\ run = 1
    /\ status = Succeeded({"ensure_dirs"})
    /\ \E ms \in SeqsUpTo(RawMovieRows, MaxRawRows), cs \in RawCreditBatches :
          raw = [movies  |-> [hasGenres |-> TRUE, rows |-> ms],
                 credits |-> [hasCast |-> TRUE, rows |-> cs]]
    /\ files = {}
    /\ NoFrames
    /\ table = <<>>
    /\ report = <<>>
    /\ hist = EmptyHist

NextNorm ==
    \/ \E t \in {"bronze_movies", "bronze_credits", "transform_merge"} : Start(t)
    \/ BronzeMoviesTask
    \/ BronzeCreditsTask
    \/ TransformMergeTask

SpecNorm == InitNorm /\ [][NextNorm]_vars

(* C6: no raw batch makes bronze_movies, bronze_credits or transform_merge *)
(* raise.                                                                  *)
C6_MalformedFieldsNeverAbort ==
    \A t \in {"bronze_movies", "bronze_credits", "transform_merge"} :
        status[t] # "failed"

----------------------------------------------------------------------------
(* The merge: normalised movies and credits with shared, missing and       *)
(* repeated ids                                                            *)
MaxMovies == 2

MaxCredits == 2

MergeMovieRows ==
    { Movie(IntCell(i), t, DateCell("2009-12-10"), FloatCell(8, 1), IntCell(100),
            ListLit(<< Named(<<"D">>) >>)) : i \in {1, 2}, t \in {"A", "B"} }

MergeCreditRows ==
    { Credit(IntCell(i), c) : i \in {1, 2}, c \in {ListLit(<< Named(<<"E">>) >>), NanList} }

InitMerge ==
    /\ run = 1
    /\ status = Succeeded({"ensure_dirs", "bronze_movies", "bronze_credits"})
    /\ \E ms \in SeqsUpTo(MergeMovieRows, MaxMovies),
          cs \in SeqsUpTo(MergeCreditRows, MaxCredits), hc \in BOOLEAN :
          /\ raw = [movies  |-> [hasGenres |-> TRUE, rows |-> ms],
                    credits |-> [hasCast |-> hc, rows |-> cs]]
          /\ bronzeM = [hasGenres |-> TRUE, rows |-> BronzeMovies(raw.movies).rows]
          /\ bronzeC = [hasCast |-> hc, rows |-> BronzeCredits(raw.credits).rows]
    /\ files = {"movies.parquet", "credits.parquet"}
    /\ silver = [cols |-> {}, rows |-> <<>>]
    /\ table = <<>>
    /\ report = <<>>
    /\ hist = EmptyHist

NextMerge ==
    \/ Start("transform_merge")
    \/ TransformMergeTask

SpecMerge == InitMerge /\ [][NextMerge]_vars

Merged == status["transform_merge"] = "success"

CreditIdsDistinct ==
    \A i, j \in DOMAIN bronzeC.rows :
        bronzeC.rows[i].movie_id = bronzeC.rows[j].movie_id => i = j

HasCredit(m) == \E j \in DOMAIN bronzeC.rows : bronzeC.rows[j].movie_id = m.id

(* C7 as stated: when no movie_id occurs twice in the credits, every movie *)
(* id appears exactly once in the merged output, and a movie without a     *)
(* credit row has a null cast_top3.                                        *)
C7_EveryMovieIdExactlyOnce ==
    (Merged /\ CreditIdsDistinct) =>
        \A i \in DOMAIN bronzeM.rows :
            /\ Cardinality({ j \in DOMAIN silver.rows :
                               silver.rows[j].id = bronzeM.rows[i].id }) = 1
            /\ ~HasCredit(bronzeM.rows[i]) =>
                  \A j \in DOMAIN silver.rows :
                      silver.rows[j].id = bronzeM.rows[i].id =>
                          silver.rows[j].cast_top3.k # "text"

(* C7 amended: when no movie_id occurs twice in the credits, every movie   *)
(* row appears exactly once in the merged output, in the movies' order     *)
(* (an id carried by k movie rows appears k times), no movie row is        *)
(* dropped, and a movie without a credit row has no cast_top3 text while   *)
(* one with a credit row carrying a cast column has one.                   *)
C7_EveryMovieRowExactlyOnce ==
    (Merged /\ CreditIdsDistinct) =>
        /\ Len(silver.rows) = Len(bronzeM.rows)
        /\ \A i \in DOMAIN bronzeM.rows :
              /\ silver.rows[i].id = bronzeM.rows[i].id
              /\ silver.rows[i].title = bronzeM.rows[i].title
              /\ ~HasCredit(bronzeM.rows[i]) => silver.rows[i].cast_top3.k # "text"
              /\ (HasCredit(bronzeM.rows[i]) /\ bronzeC.hasCast) =>
                    silver.rows[i].cast_top3.k = "text"

(* C7 witness: merged two movies, one with a credit row and one without *)
C7_Witness ==
    /\ Merged
    /\ CreditIdsDistinct
    /\ Len(bronzeM.rows) = 2
    /\ HasCredit(bronzeM.rows[1])
    /\ ~HasCredit(bronzeM.rows[2])
    /\ bronzeC.hasCast
    /\ silver.rows[2].cast_top3 = NullText

----------------------------------------------------------------------------
(* The cast feature: one credit row whose cast list is any list of up to   *)
(* MaxCast items                                                           *)
MaxCast == 4

CastItems ==
    {Named(<<"E">>), Named(<<"F">>), Named(<<"G">>), Named(<<"H">>),
     Dict("str", <<>>), Dict("absent", <<>>), Dict("int", <<>>), NonDict}

InitCast ==
    /\ run = 1
    /\ status = Succeeded({"ensure_dirs", "bronze_movies", "bronze_credits"})
    /\ \E L \in SeqsUpTo(CastItems, MaxCast) :
          raw = [movies  |-> RawA.movies,
                 credits |-> [hasCast |-> TRUE,
                              rows |-> << Credit(IntCell(1), ListLit(L)) >>]]
    /\ bronzeM = [hasGenres |-> TRUE, rows |-> BronzeMovies(raw.movies).rows]
    /\ bronzeC = [hasCast |-> TRUE, rows |-> BronzeCredits(raw.credits).rows]
    /\ files = {"movies.parquet", "credits.parquet"}
    /\ silver = [cols |-> {}, rows |-> <<>>]
    /\ table = <<>>
    /\ report = <<>>
    /\ hist = EmptyHist

SpecCast == InitCast /\ [][NextMerge]_vars

CastList == bronzeC.rows[1].cast.items

(* The positions of the mapping items that have a non-empty name *)
NamedAt == { i \in DOMAIN CastList :
               /\ CastList[i].e = "dict"
               /\ CastList[i].nk \in {"str", "int"}
               /\ CastList[i].nk = "str" => CastList[i].s # <<>> }

(* The first three of them: those with fewer than three before them *)
FirstThree == { i \in NamedAt : Cardinality({ j \in NamedAt : j < i }) < 3 }

RECURSIVE JoinedAt(_)
JoinedAt(I) ==
    IF I = {} THEN <<>>
    ELSE LET i == CHOOSE x \in I : \A y \in I : x <= y
         IN  IF I = {i} THEN CastList[i].s
             ELSE CastList[i].s \o <<",", " ">> \o JoinedAt(I \ {i})

Commas(s) == Cardinality({ i \in DOMAIN s : s[i] = "," })

(* C10: the merged row's cast_top3 is the ", "-join of the names at the    *)
(* first three positions holding a mapping with a non-empty name, in input *)
(* order; it holds at most three names; a list with fewer than three such  *)
(* items, or none, is merged without error.                                *)
C10_CastTop3FilterThenTake ==
    /\ Merged =>
          /\ silver.rows[1].cast_top3 = Text(JoinedAt(FirstThree))
          /\ Commas(silver.rows[1].cast_top3.s) <= 2
    /\ (\A i \in FirstThree : CastList[i].nk = "str") =>
          status["transform_merge"] # "failed"

(* C10 witness: four named items behind an item without a name; the       *)
(* feature holds the first three names                                     *)
C10_Witness ==
    /\ Merged
    /\ Len(CastList) = 4
    /\ CastList[1] = Dict("absent", <<>>)
    /\ NamedAt = {2, 3, 4}
    /\ silver.rows[1].cast_top3 =
          Text(CastList[2].s \o <<",", " ">> \o CastList[3].s \o <<",", " ">> \o CastList[4].s)

----------------------------------------------------------------------------
(* The report: stored tables of up to MaxRows rows                         *)
MaxRows == 2

ElevenGenres ==
    <<"A", ",", " ", "B", ",", " ", "C", ",", " ", "D", ",", " ", "E", ",", " ",
      "F", ",", " ", "G", ",", " ", "H", ",", " ", "I", ",", " ", "J", ",", " ", "K">>

(* Null, the join of the names " B" and " ", two genres, eleven *)
StoredGenres ==
    {NullText, Text(<<" ", "B", ",", " ", " ">>), Text(<<"A", ",", " ", "K">>),
     Text(ElevenGenres)}

StoredVotes == {NullNum, Num(6, 1), Num(8, 1)}

StoredCounts == {NullNum, Num(10, 1), Num(50, 1), Num(60, 1)}

StoredRows ==
    { [id |-> 1, title |-> "A", release_date |-> NullDate, vote_average |-> va,
       vote_count |-> vc, popularity |-> NullNum, runtime |-> NullNum,
       genres |-> g, cast_top3 |-> NullText] :
        g \in StoredGenres, va \in StoredVotes, vc \in StoredCounts }

InitAgg ==
    /\ run = 1
    /\ status = Succeeded(Tasks \ {"analyze_to_csv", "cleanup_intermediate"})
    /\ raw = RawA
    /\ files = Artifacts
    /\ NoFrames
    /\ table \in SeqsUpTo(StoredRows, MaxRows)
    /\ report = <<>>
    /\ hist = EmptyHist

NextAgg ==
    \/ Start("analyze_to_csv")
    \/ AnalyzeToCsv

SpecAgg == InitAgg /\ [][NextAgg]_vars

Reported == status["analyze_to_csv"] = "success"

(* The exploded rows of a genre that have the support, vote_count >= 50,   *)
(* and those of them with a vote_average                                   *)
SupportAt(ex, g) ==
    { i \in DOMAIN ex :
        /\ ex[i].genre = g
        /\ ex[i].vote_count.k = "num"
        /\ ex[i].vote_count.n >= 50 * ex[i].vote_count.d }

RatedAt(ex, g) == { i \in SupportAt(ex, g) : ex[i].vote_average.k = "num" }

RECURSIVE SumAt(_, _)
SumAt(ex, I) ==
    IF I = {} THEN Num(0, 1)
    ELSE LET i == CHOOSE x \in I : TRUE
         IN  NumAdd(ex[i].vote_average, SumAt(ex, I \ {i}))

(* Per genre with a supported exploded row: the number of supported rows,  *)
(* the number of them with a vote_average, and the sum of those            *)
GroupFacts(ex) ==
    { [genre |-> g,
       n     |-> Cardinality(SupportAt(ex, g)),
       rated |-> Cardinality(RatedAt(ex, g)),
       sum   |-> SumAt(ex, RatedAt(ex, g))] :
        g \in { ex[i].genre : i \in { j \in DOMAIN ex : SupportAt(ex, ex[j].genre) # {} } } }

MeanOf(f) == IF f.rated = 0 THEN NullNum ELSE Num(f.sum.n, f.sum.d * f.rated)

(* C8 as stated: each report row's genre has a supported exploded row,     *)
(* n_movies is the number of them, and avg_vote is the sum of their        *)
(* vote_average divided by n_movies.                                       *)
C8_MeanOverAllCountedRows ==
    Reported =>
        LET facts == GroupFacts(Explode(hist.read))
        IN  \A r \in DOMAIN report :
                \E f \in facts :
                    /\ f.genre = report[r].genre
                    /\ f.n >= 1
                    /\ report[r].n_movies = f.n
                    /\ report[r].avg_vote = Num(f.sum.n, f.sum.d * f.n)

(* C8 amended: each report row's genre has a supported exploded row,       *)
(* n_movies is the number of them, and avg_vote is the arithmetic mean of  *)
(* vote_average over those of them whose vote_average is not null, and is  *)
(* null when there is none.                                                *)
C8_MeanOverRatedRows ==
    Reported =>
        LET facts == GroupFacts(Explode(hist.read))
        IN  \A r \in DOMAIN report :
                \E f \in facts :
                    /\ f.genre = report[r].genre
                    /\ f.n >= 1
                    /\ report[r].n_movies = f.n
                    /\ report[r].avg_vote = MeanOf(f)

(* C8 witness: a genre reported over two supported rows, one of them with  *)
(* a null vote_average and one at exactly 50 votes                         *)
C8_Witness ==
    /\ Reported
    /\ Len(hist.read) = 2
    /\ hist.read[1].vote_count = Num(50, 1)
    /\ hist.read[1].vote_average = NullNum
    /\ hist.read[2].vote_average = Num(8, 1)
    /\ hist.read[2].genres = hist.read[1].genres
    /\ \E r \in DOMAIN report :
          /\ report[r].n_movies = 2
          /\ report[r].avg_vote = Num(8, 1)

Higher(a, b) == a.k = "num" /\ b.k = "num" /\ a.n * b.d > b.n * a.d

Listed == { report[r].genre : r \in DOMAIN report }

Min(a, b) == IF a < b THEN a ELSE b

(* C9: the report lists min(10, number of groups) distinct groups, each    *)
(* with its mean, in non-increasing order of mean with the groups without  *)
(* a mean last; no omitted group has a higher mean than a listed one; the  *)
(* report of a table with no supported exploded row has no rows; and the   *)
(* report task ends in success.                                            *)
C9_TopTenByMeanDescending ==
    /\ status["analyze_to_csv"] # "failed"
    /\ Reported =>
          LET facts   == GroupFacts(Explode(hist.read))
              omitted == { f \in facts : f.genre \notin Listed }
          IN  /\ Len(report) = Min(10, Cardinality(facts))
              /\ Cardinality(Listed) = Len(report)
              /\ \A r \in DOMAIN report :
                    \E f \in facts : /\ f.genre = report[r].genre
                                     /\ report[r].avg_vote = MeanOf(f)
              /\ \A i, j \in DOMAIN report :
                    i < j => /\ ~Higher(report[j].avg_vote, report[i].avg_vote)
                             /\ report[i].avg_vote.k = "null" =>
                                   report[j].avg_vote.k = "null"
              /\ \A f \in omitted, r \in DOMAIN report :
                    /\ ~Higher(MeanOf(f), report[r].avg_vote)
                    /\ MeanOf(f).k = "num" => report[r].avg_vote.k = "num"
              /\ facts = {} => report = <<>>

(* C9 witness: eleven groups, ten listed, the omitted one with a lower     *)
(* mean than the first listed                                              *)
C9_Witness ==
    /\ Reported
    /\ Len(report) = 10
    /\ LET facts == GroupFacts(Explode(hist.read))
       IN  /\ Cardinality(facts) = 11
           /\ \E f \in facts : /\ f.genre \notin Listed
                               /\ Higher(report[1].avg_vote, MeanOf(f))

====
